---- MODULE Spec2Model ----
(***************************************************************************)
(* SearchBard conference search: the aggregation pipeline of               *)
(* ConferenceSearchService.searchConferences, the provider adapters it     *)
(* awaits (SerpApiService, TicketmasterApiService), the stand-alone        *)
(* EventbriteApiService adapter, the module-level mock dataset, and the    *)
(* App component that calls searchConferences from its search form.        *)
(*                                                                         *)
(* Strings are TLA+ strings; the JavaScript string methods the code calls  *)
(* are computed character by character.  Dates are "YYYY-MM-DD" strings    *)
(* and new Date(s).getTime() is computed from the digits, in whole days    *)
(* (the constant factor 86400000 ms is left out to stay inside 32 bits).   *)
(* Coordinates are the decimal degrees times 10000.                        *)
(***************************************************************************)
EXTENDS Integers, Sequences, FiniteSets, TLC

VARIABLES
  env,              \* process.env: the three REACT_APP_*_API_KEY values
  mockConferences,  \* the module-level array exported by data/mockConferences
  pc,               \* where the current searchConferences call is
  filters,          \* its argument
  allResults,       \* its local allResults
  deduplicated,     \* its local deduplicated (provider path)
  returned,         \* the value its promise resolved with
  path,             \* which return statement produced it: "none", "api", "mock"
  serp,             \* the SerpApiService.searchEvents call it awaits
  tm,               \* the TicketmasterApiService.searchEvents call it awaits
  eb,               \* a stand-alone EventbriteApiService.searchEvents call
  conferencesState, \* App: const [conferences, setConferences] = useState<Conference[]>([])
  isLoading,        \* App: useState(false)
  searchPerformed,  \* App: useState(false)
  timers,           \* the setTimeout callbacks of handleSearch not yet run
  calls             \* the promises searchConferences returned to those callbacks

uiVars == << conferencesState, isLoading, searchPerformed, timers, calls >>

vars == << env, mockConferences, pc, filters, allResults, deduplicated,
           returned, path, serp, tm, eb, conferencesState, isLoading,
           searchPerformed, timers, calls >>

----------------------------------------------------------------------------
(* Bounds of the model *)

MaxSerpEvents == 2
MaxTicketmasterEvents == 2
MaxEventbriteEvents == 1

----------------------------------------------------------------------------
(* JavaScript string methods *)

CharAt(s, i) == SubSeq(s, i, i)

UpperChars == "ABCDEFGHIJKLMNOPQRSTUVWXYZ"
LowerChars == "abcdefghijklmnopqrstuvwxyz"

LowerOf == [ c \in { CharAt(UpperChars, i) : i \in 1..26 } |-> CharAt(LowerChars, CHOOSE i \in 1..26 : CharAt(UpperChars, i) = c) ]

ToLowerChar(c) == IF c \in DOMAIN LowerOf THEN LowerOf[c] ELSE c

RECURSIVE toLowerCase(_)
toLowerCase(s) ==
  IF Len(s) = 0 THEN ""
  ELSE ToLowerChar(CharAt(s, 1)) \o toLowerCase(SubSeq(s, 2, Len(s)))

RECURSIVE trimStart(_)
trimStart(s) ==
  IF Len(s) > 0 /\ CharAt(s, 1) = " " THEN trimStart(SubSeq(s, 2, Len(s))) ELSE s

RECURSIVE trimEnd(_)
trimEnd(s) ==
  IF Len(s) > 0 /\ CharAt(s, Len(s)) = " "
  THEN trimEnd(SubSeq(s, 1, Len(s) - 1)) ELSE s

trim(s) == trimEnd(trimStart(s))

\* s.replace(/\s+/g, ' ')
RECURSIVE replaceWhitespaceRuns(_)
replaceWhitespaceRuns(s) ==
  IF Len(s) = 0 THEN ""
  ELSE IF CharAt(s, 1) = " "
       THEN " " \o replaceWhitespaceRuns(trimStart(s))
       ELSE CharAt(s, 1) \o replaceWhitespaceRuns(SubSeq(s, 2, Len(s)))

\* s.split(',')[0]
RECURSIVE splitCommaFirst(_)
splitCommaFirst(s) ==
  IF Len(s) = 0 \/ CharAt(s, 1) = "," THEN ""
  ELSE CharAt(s, 1) \o splitCommaFirst(SubSeq(s, 2, Len(s)))

\* s.split('T')[0]
RECURSIVE splitTFirst(_)
splitTFirst(s) ==
  IF Len(s) = 0 \/ CharAt(s, 1) = "T" THEN ""
  ELSE CharAt(s, 1) \o splitTFirst(SubSeq(s, 2, Len(s)))

\* s.includes(sub)
includes(s, sub) ==
  \E i \in 1..(Len(s) - Len(sub) + 1) : SubSeq(s, i, i + Len(sub) - 1) = sub

\* s.substring(0, n)
substring0(s, n) == SubSeq(s, 1, IF Len(s) < n THEN Len(s) ELSE n)

\* array.includes(x)
arrayIncludes(arr, x) == \E i \in 1..Len(arr) : arr[i] = x

----------------------------------------------------------------------------
(* new Date("YYYY-MM-DD").getTime(), in days since 1970-01-01 *)

Digits == "0123456789"

DigitOf == [ c \in { CharAt(Digits, i) : i \in 1..10 } |-> (CHOOSE i \in 1..10 : CharAt(Digits, i) = c) - 1 ]

DigitValue(c) == DigitOf[c]

RECURSIVE ParseDigits(_)
ParseDigits(s) ==
  IF Len(s) = 0 THEN 0
  ELSE ParseDigits(SubSeq(s, 1, Len(s) - 1)) * 10 + DigitValue(CharAt(s, Len(s)))

DaysFromCivil(y, m, d) ==
  LET yy  == IF m <= 2 THEN y - 1 ELSE y
      era == yy \div 400
      yoe == yy - era * 400
      mp  == IF m > 2 THEN m - 3 ELSE m + 9
      doy == (153 * mp + 2) \div 5 + d - 1
      doe == yoe * 365 + yoe \div 4 - yoe \div 100 + doy
  IN  era * 146097 + doe - 719468

getTime(s) ==
  DaysFromCivil(ParseDigits(SubSeq(s, 1, 4)),
                ParseDigits(SubSeq(s, 6, 7)),
                ParseDigits(SubSeq(s, 9, 10)))

----------------------------------------------------------------------------
(* Conference records.  Optional fields (coordinates, website,             *)
(* attendeeCount, price) are absent from the record when undefined.        *)

Has(r, field) == field \in DOMAIN r

TOP_SUBJECTS ==
  << "Technology", "Healthcare", "Business", "Education", "Science",
     "Marketing", "Finance", "Environment", "Arts & Design", "Engineering",
     "Sports" >>

MockRecord(id, title, subject, city, state, lat, lng, startDate, endDate, description, organizer, attendeeCount, min, max) ==
  [ id |-> id, title |-> title, subject |-> subject,
    location |-> [ city |-> city, state |-> state, country |-> "USA",
                   coordinates |-> [ lat |-> lat, lng |-> lng ] ],
    startDate |-> startDate, endDate |-> endDate,
    description |-> description, organizer |-> organizer,
    attendeeCount |-> attendeeCount,
    price |-> [ min |-> min, max |-> max, currency |-> "USD" ] ]

mockConferencesData ==
  << MockRecord("1", "TechCrunch Disrupt 2024", "Technology",
       "San Francisco", "CA", 377749, -1224194, "2024-09-15", "2024-09-17",
       "The premier technology conference featuring startup pitches, investor discussions, and the latest in tech innovation.",
       "TechCrunch", 10000, 2500, 5000)
       @@ [ website |-> "https://techcrunch.com/events/disrupt-2024/" ],
     MockRecord("2", "World Healthcare Innovation Summit", "Healthcare",
       "Boston", "MA", 423601, -710589, "2024-10-22", "2024-10-24",
       "Leading healthcare professionals discuss breakthrough innovations in medical technology and patient care.",
       "Healthcare Innovation Institute", 5000, 1800, 3500),
     MockRecord("3", "Global Business Leaders Forum", "Business",
       "New York", "NY", 407128, -740060, "2024-11-05", "2024-11-07",
       "CEOs and business leaders share insights on global markets, strategy, and leadership.",
       "Business Leadership Council", 3000, 2000, 4000),
     MockRecord("4", "International Education Technology Conference", "Education",
       "Austin", "TX", 302672, -977431, "2024-09-28", "2024-09-30",
       "Educators and technologists explore the future of learning through innovative educational technologies.",
       "EdTech Alliance", 4000, 1200, 2500),
     MockRecord("5", "National Science Foundation Symposium", "Science",
       "Washington", "DC", 389072, -770369, "2024-10-15", "2024-10-17",
       "Scientists present cutting-edge research across multiple disciplines including physics, biology, and chemistry.",
       "National Science Foundation", 2500, 800, 1500),
     MockRecord("6", "Digital Marketing Expo", "Marketing",
       "Las Vegas", "NV", 361699, -1151398, "2024-11-12", "2024-11-14",
       "Marketing professionals learn about the latest digital marketing trends, tools, and strategies.",
       "Digital Marketing Association", 6000, 1500, 3000),
     MockRecord("7", "Financial Technology Summit", "Finance",
       "Chicago", "IL", 418781, -876298, "2024-10-08", "2024-10-10",
       "FinTech innovators and financial institutions discuss the future of banking and financial services.",
       "FinTech Coalition", 3500, 2200, 4500),
     MockRecord("8", "Climate Action Conference", "Environment",
       "Seattle", "WA", 476062, -1223321, "2024-09-20", "2024-09-22",
       "Environmental scientists and activists collaborate on solutions for climate change and sustainability.",
       "Green Future Initiative", 4500, 1000, 2000),
     MockRecord("9", "Design Thinking Workshop", "Arts & Design",
       "Los Angeles", "CA", 340522, -1182437, "2024-11-20", "2024-11-22",
       "Designers and creative professionals explore innovative design methodologies and artistic expression.",
       "Creative Arts Foundation", 2000, 1300, 2600),
     MockRecord("10", "International Engineering Symposium", "Engineering",
       "Denver", "CO", 397392, -1049903, "2024-10-30", "2024-11-01",
       "Engineers from various disciplines share innovations in infrastructure, robotics, and sustainable engineering.",
       "International Engineering Society", 5500, 1600, 3200),
     MockRecord("11", "AI & Machine Learning Conference", "Technology",
       "San Jose", "CA", 373382, -1218863, "2024-12-03", "2024-12-05",
       "Artificial intelligence researchers and practitioners discuss the latest developments in ML and AI.",
       "AI Research Institute", 8000, 2800, 5500),
     MockRecord("12", "Telemedicine Innovation Forum", "Healthcare",
       "Atlanta", "GA", 337490, -843880, "2024-11-28", "2024-11-29",
       "Healthcare providers explore remote care technologies and digital health solutions.",
       "Telemedicine Association", 3200, 1400, 2800) >>

----------------------------------------------------------------------------
(* getCityCoordinates and calculateDistance *)

CityNames ==
  << "san francisco", "new york", "los angeles", "chicago",
     "boston", "seattle", "denver", "austin",
     "atlanta", "washington", "las vegas", "san jose",
     "orlando", "dallas", "houston", "phoenix",
     "san diego", "miami", "philadelphia", "nashville",
     "portland" >>

CityLat ==
  << 377749, 407128, 340522, 418781, 423601, 476062, 397392, 302672, 337490,
     389072, 361699, 373382, 285383, 327767, 297604, 334484, 327157, 257617,
     399526, 361627, 455152 >>

CityLng ==
  << -1224194, -740060, -1182437, -876298, -710589, -1223321, -1049903,
     -977431, -843880, -770369, -1151398, -1218863, -813792, -967970,
     -953698, -1120740, -1171611, -801918, -751652, -867816, -1226784 >>

\* cityCoords[searchCity] || null ; the null result is the record [ null |-> TRUE ]
null == [ null |-> TRUE ]

getCityCoordinates(city) ==
  LET searchCity == trim(splitCommaFirst(toLowerCase(city)))
  IN  IF \E i \in 1..Len(CityNames) : CityNames[i] = searchCity
      THEN LET i == CHOOSE i \in 1..Len(CityNames) : CityNames[i] = searchCity
           IN  [ lat |-> CityLat[i], lng |-> CityLng[i] ]
      ELSE null

\* The Haversine distance R * c of the source, rounded up to whole miles, for
\* every pair of the coordinates above (row: first point, column: second).
\* For a whole number r, distance <= r exactly when the rounded-up value <= r.
MilesCeil ==
  << << 0, 2566, 348, 1855, 2693, 680, 948, 1500, 2136, 2436, 417, 42, 2438, 1481, 1643, 653, 459, 2592, 2517, 1959, 536 >>,
     << 2566, 0, 2446, 712, 191, 2403, 1628, 1512, 746, 204, 2228, 2549, 940, 1371, 1418, 2140, 2428, 1093, 81, 759, 2440 >>,
     << 348, 2446, 0, 1743, 2592, 961, 830, 1226, 1933, 2295, 229, 306, 2198, 1238, 1371, 357, 112, 2336, 2389, 1777, 826 >>,
     << 1855, 712, 1743, 0, 849, 1734, 919, 980, 589, 594, 1522, 1838, 987, 805, 942, 1452, 1732, 1192, 664, 398, 1755 >>,
     << 2693, 191, 2592, 849, 0, 2486, 1766, 1695, 937, 394, 2370, 2679, 1116, 1550, 1605, 2296, 2579, 1259, 271, 942, 2534 >>,
     << 680, 2403, 961, 1734, 2486, 0, 1020, 1770, 2179, 2322, 872, 710, 2547, 1680, 1890, 1115, 1064, 2732, 2374, 1971, 146 >>,
     << 948, 1628, 830, 919, 1766, 1020, 0, 772, 1211, 1490, 606, 927, 1550, 663, 879, 586, 833, 1726, 1575, 1021, 982 >>,
     << 1500, 1512, 1226, 980, 1695, 1770, 772, 0, 818, 1317, 1084, 1465, 992, 183, 147, 869, 1155, 1114, 1436, 753, 1708 >>,
     << 2136, 746, 1933, 589, 937, 2179, 1211, 818, 0, 543, 1743, 2109, 402, 720, 702, 1589, 1888, 607, 666, 215, 2169 >>,
     << 2436, 204, 2295, 594, 394, 2322, 1490, 1317, 543, 0, 2082, 2416, 759, 1183, 1219, 1978, 2270, 927, 124, 567, 2348 >>,
     << 417, 2228, 229, 1522, 2370, 872, 606, 1084, 1743, 2082, 0, 383, 2029, 1070, 1226, 257, 265, 2179, 2173, 1577, 756 >>,
     << 42, 2549, 306, 1838, 2679, 710, 927, 1465, 2109, 2416, 383, 0, 2407, 1450, 1608, 615, 417, 2559, 2500, 1935, 567 >>,
     << 2438, 940, 2198, 987, 1116, 2547, 1550, 992, 402, 759, 2029, 2407, 0, 961, 848, 1843, 2137, 206, 865, 614, 2526 >>,
     << 1481, 1371, 1238, 805, 1550, 1680, 663, 183, 720, 1183, 1070, 1450, 961, 0, 225, 885, 1182, 1111, 1298, 617, 1632 >>,
     << 1643, 1418, 1371, 942, 1605, 1890, 879, 147, 702, 1219, 1226, 1608, 848, 225, 0, 1015, 1302, 968, 1340, 666, 1834 >>,
     << 653, 2140, 357, 1452, 2296, 1115, 586, 869, 1589, 1978, 257, 615, 1843, 885, 1015, 0, 299, 1979, 2079, 1444, 1006 >>,
     << 459, 2428, 112, 1732, 2579, 1064, 833, 1155, 1888, 2270, 265, 417, 2137, 1182, 1302, 299, 0, 2269, 2368, 1741, 932 >>,
     << 2592, 1093, 2336, 1192, 1259, 2732, 1726, 1114, 607, 927, 2179, 2559, 206, 1111, 968, 1979, 2269, 0, 1023, 818, 2706 >>,
     << 2517, 81, 2389, 664, 271, 2374, 1575, 1436, 666, 124, 2173, 2500, 865, 1298, 1340, 2079, 2368, 1023, 0, 684, 2407 >>,
     << 1959, 759, 1777, 398, 942, 1971, 1021, 753, 215, 567, 1577, 1935, 614, 617, 666, 1444, 1741, 818, 684, 0, 1966 >>,
     << 536, 2440, 826, 1755, 2534, 146, 982, 1708, 2169, 2348, 756, 567, 2526, 1632, 1834, 1006, 932, 2706, 2407, 1966, 0 >> >>

CoordIndex(lat, lng) ==
  CHOOSE i \in 1..Len(CityLat) : CityLat[i] = lat /\ CityLng[i] = lng

calculateDistance(lat1, lng1, lat2, lng2) ==
  MilesCeil[CoordIndex(lat1, lng1)][CoordIndex(lat2, lng2)]

----------------------------------------------------------------------------
(* Completion of a block of code: it returns a value, throws, or runs on *)

Return(v) == [ type |-> "return", value |-> v ]
Throw == [ type |-> "throw", value |-> <<>> ]

----------------------------------------------------------------------------
(* ConferenceSearchService.deduplicateConferences and its score *)

\* a score that gives every field one point
calculateCompletenessScoreFlat(conference) ==
  (IF Has(conference.location, "coordinates") THEN 1 ELSE 0)
  + (IF Len(conference.description) > 50 THEN 1 ELSE 0)
  + (IF Has(conference, "price") THEN 1 ELSE 0)
  + (IF Has(conference, "attendeeCount") /\ conference.attendeeCount # 0 THEN 1 ELSE 0)
  + (IF Has(conference, "website") /\ conference.website # "" /\ conference.website # "#" THEN 1 ELSE 0)
  + (IF conference.organizer # "" /\ conference.organizer # "Event Organizer" /\ conference.organizer # "Ticketmaster Event" THEN 1 ELSE 0)

calculateCompletenessScore(conference) ==
  (IF Has(conference.location, "coordinates") THEN 2 ELSE 0)
  + (IF Len(conference.description) > 50 THEN 2 ELSE 0)
  + (IF Has(conference, "price") THEN 1 ELSE 0)
  + (IF Has(conference, "attendeeCount") /\ conference.attendeeCount # 0 THEN 1 ELSE 0)
  + (IF Has(conference, "website") /\ conference.website # "" /\ conference.website # "#" THEN 1 ELSE 0)
  + (IF conference.organizer # "" /\ conference.organizer # "Event Organizer" /\ conference.organizer # "Ticketmaster Event" THEN 1 ELSE 0)

\* a key that also carries the city
dedupKeyWithCity(conference) ==
  replaceWhitespaceRuns(trim(toLowerCase(conference.title))) \o "|" \o conference.startDate \o "|" \o conference.location.city

dedupKey(conference) ==
  replaceWhitespaceRuns(trim(toLowerCase(conference.title))) \o "|" \o conference.startDate

\* The Map "seen" is a sequence of entries in insertion order.
seenHas(seen, key) == \E i \in 1..Len(seen) : seen[i].key = key

seenGet(seen, key) == seen[CHOOSE i \in 1..Len(seen) : seen[i].key = key].value

\* seen.set that never finds the key again
seenSetAppend(seen, key, value) == Append(seen, [ key |-> key, value |-> value ])

\* seen.set as delete-then-insert: a replaced key moves to the end
seenSetMoveToEnd(seen, key, value) ==
  Append(SelectSeq(seen, LAMBDA e : e.key # key), [ key |-> key, value |-> value ])

seenSet(seen, key, value) ==
  IF seenHas(seen, key)
  THEN [ i \in 1..Len(seen) |-> IF seen[i].key = key THEN [ key |-> key, value |-> value ] ELSE seen[i] ]
  ELSE Append(seen, [ key |-> key, value |-> value ])

\* a loop body that lets the later record of a key win whatever the scores
dedupStepLastWins(seen, conference) == seenSet(seen, dedupKey(conference), conference)

\* a loop body that replaces on newScore >= existingScore
dedupStepReplaceOnTie(seen, conference) ==
  LET key == dedupKey(conference)
  IN  IF ~seenHas(seen, key) THEN seenSet(seen, key, conference)
      ELSE IF calculateCompletenessScore(conference) >= calculateCompletenessScore(seenGet(seen, key))
           THEN seenSet(seen, key, conference)
           ELSE seen

\* a loop body that fills the kept record's missing fields from the dropped one
dedupStepMergeFields(seen, conference) ==
  LET key == dedupKey(conference)
  IN  IF ~seenHas(seen, key) THEN seenSet(seen, key, conference)
      ELSE IF calculateCompletenessScore(conference) > calculateCompletenessScore(seenGet(seen, key))
           THEN seenSet(seen, key, conference @@ seenGet(seen, key))
           ELSE seenSet(seen, key, seenGet(seen, key) @@ conference)

dedupStep(seen, conference) ==
  LET key == dedupKey(conference)
  IN  IF ~seenHas(seen, key) THEN seenSet(seen, key, conference)
      ELSE IF calculateCompletenessScore(conference) > calculateCompletenessScore(seenGet(seen, key))
           THEN seenSet(seen, key, conference)
           ELSE seen

RECURSIVE dedupLoop(_, _, _)
dedupLoop(seen, conferences, i) ==
  IF i > Len(conferences) THEN seen
  ELSE dedupLoop(dedupStep(seen, conferences[i]), conferences, i + 1)

deduplicateConferences(conferences) ==
  LET seen == dedupLoop(<<>>, conferences, 1)
  IN  [ i \in 1..Len(seen) |-> seen[i].value ]

----------------------------------------------------------------------------
(* results.sort((a, b) => new Date(a.startDate).getTime() -               *)
(*                        new Date(b.startDate).getTime())                *)
(* Array.prototype.sort is stable: an insertion sort that puts an element *)
(* behind the elements that do not compare greater.                       *)

RECURSIVE insertByTime(_, _)
insertByTime(sorted, e) ==
  IF Len(sorted) = 0 THEN << e >>
  ELSE IF sorted[Len(sorted)].time - e.time <= 0 THEN Append(sorted, e)
       ELSE Append(insertByTime(SubSeq(sorted, 1, Len(sorted) - 1), e), sorted[Len(sorted)])

RECURSIVE sortLoop(_, _, _)
sortLoop(sorted, keyed, i) ==
  IF i > Len(keyed) THEN sorted
  ELSE sortLoop(insertByTime(sorted, keyed[i]), keyed, i + 1)

\* the return statement without the sort
sortByStartDateSkipped(results) == results

\* a sort that leaves records of equal startDate in reverse input order
sortByStartDateTiesReversed(results) ==
  LET keyed == [ i \in 1..Len(results) |-> [ time |-> getTime(results[Len(results) + 1 - i].startDate), item |-> results[Len(results) + 1 - i] ] ]
      sorted == sortLoop(<<>>, keyed, 1)
  IN  [ i \in 1..Len(sorted) |-> sorted[i].item ]

sortByStartDate(results) ==
  LET keyed == [ i \in 1..Len(results) |-> [ time |-> getTime(results[i].startDate), item |-> results[i] ] ]
      sorted == sortLoop(<<>>, keyed, 1)
  IN  [ i \in 1..Len(sorted) |-> sorted[i].item ]

----------------------------------------------------------------------------
(* The filter stages of searchConferences.  "Truthy" is JavaScript's       *)
(* truthiness of the optional number filters.radius and of a string.       *)

radiusTruthy(f) == Has(f, "radius") /\ f.radius # 0

stringTruthy(s) == Len(s) > 0

\* FILTER 1 without the "not all 11" test
apiSubjectAppliesToFullList(f) == Len(f.subjects) > 0

\* Provider path, FILTER 1: is the stage applied, and what it keeps
apiSubjectApplies(f) == Len(f.subjects) > 0 /\ Len(f.subjects) < 11

apiSubjectKeeps(f, conference) == arrayIncludes(f.subjects, conference.subject)

\* Provider path, FILTER 2
apiLocationApplies(f) == stringTruthy(f.location) /\ radiusTruthy(f)

\* a FILTER 2 callback that keeps every record that has coordinates
apiLocationKeepsAnyCoordinates(f, searchCoords, conference) ==
  IF ~Has(conference.location, "coordinates")
  THEN LET confCity == toLowerCase(conference.location.city)
           searchLower == toLowerCase(f.location)
       IN  includes(searchLower, confCity) \/ includes(confCity, trim(splitCommaFirst(searchLower)))
  ELSE TRUE

apiLocationKeepsByCoords(f, searchCoords, conference) ==
  IF ~Has(conference.location, "coordinates")
  THEN LET confCity == toLowerCase(conference.location.city)
           searchLower == toLowerCase(f.location)
       IN  includes(searchLower, confCity) \/ includes(confCity, trim(splitCommaFirst(searchLower)))
  ELSE calculateDistance(searchCoords.lat, searchCoords.lng, conference.location.coordinates.lat, conference.location.coordinates.lng) <= f.radius

apiLocationKeepsByText(f, conference) ==
  LET searchCity == toLowerCase(trim(splitCommaFirst(f.location)))
      confCity == toLowerCase(conference.location.city)
  IN  includes(confCity, searchCity) \/ includes(searchCity, confCity)

\* FILTER 2 without the "if (searchCoords)" test: reading .lat of null throws
apiLocationFilterUnguarded(f, results) ==
  IF apiLocationApplies(f)
  THEN LET searchCoords == getCityCoordinates(f.location)
       IN  IF searchCoords = null /\ \E i \in 1..Len(results) : Has(results[i].location, "coordinates")
           THEN Throw
           ELSE Return(SelectSeq(results, LAMBDA c : apiLocationKeepsByCoords(f, searchCoords, c)))
  ELSE Return(results)

apiLocationFilter(f, results) ==
  IF apiLocationApplies(f)
  THEN LET searchCoords == getCityCoordinates(f.location)
       IN  IF searchCoords # null
           THEN Return(SelectSeq(results, LAMBDA c : apiLocationKeepsByCoords(f, searchCoords, c)))
           ELSE Return(SelectSeq(results, LAMBDA c : apiLocationKeepsByText(f, c)))
  ELSE Return(results)

\* Lines 174-240: the provider path returns, throws, or falls through to the
\* mock data.
apiPath(f, all) ==
  IF Len(all) > 0
  THEN LET dd == deduplicateConferences(all)
           afterSubject == IF apiSubjectApplies(f) THEN SelectSeq(dd, LAMBDA c : apiSubjectKeeps(f, c)) ELSE dd
           afterLocation == apiLocationFilter(f, afterSubject)
       IN  IF afterLocation.type = "throw"
           THEN [ type |-> "throw", value |-> <<>>, deduplicated |-> dd ]
           ELSE IF Len(afterLocation.value) > 0
                THEN [ type |-> "return", value |-> sortByStartDate(afterLocation.value), deduplicated |-> dd ]
                ELSE [ type |-> "fallthrough", value |-> <<>>, deduplicated |-> dd ]
  ELSE [ type |-> "fallthrough", value |-> <<>>, deduplicated |-> <<>> ]

\* Fallback path: the three stages applied to the mock data
mockSubjectApplies(f) == Len(f.subjects) > 0

\* a subject stage that keeps every record
mockSubjectKeepsAll(f, conference) == TRUE

mockSubjectKeeps(f, conference) == arrayIncludes(f.subjects, conference.subject)

mockDateApplies(f) == stringTruthy(f.startDate) /\ stringTruthy(f.endDate)

\* startDate and endDate are the two Date objects made before the callback
mockDateKeeps(startDate, endDate, conference) ==
  getTime(conference.startDate) <= endDate /\ getTime(conference.endDate) >= startDate

mockLocationApplies(f) == stringTruthy(f.location)

mockLocationKeeps(f, searchCoords, conference) ==
  IF searchCoords # null
  THEN IF ~Has(conference.location, "coordinates") THEN FALSE
       ELSE LET searchRadius == IF radiusTruthy(f) THEN f.radius ELSE 50
            IN  calculateDistance(searchCoords.lat, searchCoords.lng, conference.location.coordinates.lat, conference.location.coordinates.lng) <= searchRadius
  ELSE includes(toLowerCase(conference.location.city), toLowerCase(f.location))
       \/ includes(toLowerCase(conference.location.state), toLowerCase(f.location))

\* Lines 246-305.  "results" is the module-level array itself until a stage
\* replaces it by a filtered copy, so the final in-place sort reorders
\* mockConferences when no stage applied.
mockPath(f, mock) ==
  LET afterSubject == IF mockSubjectApplies(f) THEN SelectSeq(mock, LAMBDA c : mockSubjectKeeps(f, c)) ELSE mock
      startDate == getTime(f.startDate)
      endDate == getTime(f.endDate)
      afterDate == IF mockDateApplies(f) THEN SelectSeq(afterSubject, LAMBDA c : mockDateKeeps(startDate, endDate, c)) ELSE afterSubject
      searchCoords == getCityCoordinates(f.location)
      afterLocation == IF mockLocationApplies(f) THEN SelectSeq(afterDate, LAMBDA c : mockLocationKeeps(f, searchCoords, c)) ELSE afterDate
      sorted == sortByStartDate(afterLocation)
      aliased == ~mockSubjectApplies(f) /\ ~mockDateApplies(f) /\ ~mockLocationApplies(f)
  IN  [ value |-> sorted, mock |-> IF aliased THEN sorted ELSE mock ]

\* searchConferences without PHASE 3: an empty provider result is returned
processResultsNoFallback(f, all, mock) ==
  LET api == apiPath(f, all)
  IN  [ type |-> IF api.type = "throw" THEN "throw" ELSE "return", value |-> api.value, path |-> "api", deduplicated |-> api.deduplicated, mock |-> mock ]

\* searchConferences that tops a provider result up with the mock data
processResultsMixed(f, all, mock) ==
  LET api == apiPath(f, all)
      fb == mockPath(f, mock)
  IN  IF api.type = "throw"
      THEN [ type |-> "throw", value |-> <<>>, path |-> "api", deduplicated |-> api.deduplicated, mock |-> mock ]
      ELSE IF api.type = "return"
           THEN [ type |-> "return", value |-> sortByStartDate(api.value \o fb.value), path |-> "api", deduplicated |-> api.deduplicated, mock |-> mock ]
           ELSE [ type |-> "return", value |-> fb.value, path |-> "mock", deduplicated |-> api.deduplicated, mock |-> fb.mock ]

\* Everything after the last await: the completion of the call, the branch
\* that produced it, and the module-level array afterwards.
processResults(f, all, mock) ==
  LET api == apiPath(f, all)
  IN  IF api.type = "return"
      THEN [ type |-> "return", value |-> api.value, path |-> "api", deduplicated |-> api.deduplicated, mock |-> mock ]
      ELSE IF api.type = "throw"
           THEN [ type |-> "throw", value |-> <<>>, path |-> "api", deduplicated |-> api.deduplicated, mock |-> mock ]
           ELSE LET fb == mockPath(f, mock)
                IN  [ type |-> "return", value |-> fb.value, path |-> "mock", deduplicated |-> api.deduplicated, mock |-> fb.mock ]

----------------------------------------------------------------------------
(* Provider adapters.  A raw event carries what the adapter's helper       *)
(* functions (parseLocation, parseDateRange, determineSubjectFromQuery,    *)
(* mapClassificationToSubject, determineSubject) derive from it; an absent *)
(* optional string is "", an absent optional object is a missing field.    *)

orElse(s, default) == IF stringTruthy(s) THEN s ELSE default

convertSerpApiToConference(event, index) ==
  [ id |-> "serpapi-" \o ToString(index),
    title |-> event.title,
    subject |-> event.subject,
    location |-> [ city |-> event.city, state |-> event.state, country |-> "USA" ],
    startDate |-> event.start_date,
    endDate |-> event.start_date,
    description |-> substring0(orElse(event.description, "No description available"), 300),
    website |-> orElse(event.link, "#"),
    organizer |-> orElse(event.venueName, "Event Organizer") ]

convertTicketmasterToConference(event) ==
  [ id |-> event.id,
    title |-> event.name,
    subject |-> event.subject,
    location |-> IF Has(event, "venueLocation")
                 THEN [ city |-> orElse(event.city, "TBD"), state |-> event.stateCode, country |-> "US", coordinates |-> [ lat |-> event.venueLocation.latitude, lng |-> event.venueLocation.longitude ] ]
                 ELSE [ city |-> orElse(event.city, "TBD"), state |-> event.stateCode, country |-> "US" ],
    startDate |-> event.localDate,
    endDate |-> orElse(event.endLocalDate, event.localDate),
    description |-> orElse(event.info, "No description available"),
    website |-> event.url,
    organizer |-> "Ticketmaster Event" ]
  @@ (IF Has(event, "priceRange")
      THEN [ price |-> [ min |-> event.priceRange.min, max |-> event.priceRange.max, currency |-> "USD" ] ]
      ELSE << >>)

convertEventbriteToConference(event) ==
  [ id |-> event.id,
    title |-> event.name,
    subject |-> event.subject,
    location |-> [ city |-> orElse(event.city, "TBD"), state |-> event.region, country |-> "USA" ],
    startDate |-> splitTFirst(event.startLocal),
    endDate |-> splitTFirst(event.endLocal),
    description |-> substring0(event.description, 300) \o (IF Len(event.description) > 300 THEN "..." ELSE ""),
    website |-> event.url,
    organizer |-> orElse(event.organizerName, "Unknown"),
    attendeeCount |-> event.capacity ]
  @@ (IF Has(event, "minimumTicketPrice")
      THEN [ price |-> [ min |-> event.minimumTicketPrice, max |-> event.minimumTicketPrice, currency |-> "USD" ] ]
      ELSE << >>)

\* The state of one searchEvents call
NotStarted == [ status |-> "notStarted", value |-> <<>> ]
Pending(status) == [ status |-> status, value |-> <<>> ]

\* Suspended at "await response.json()"; body is what the response carries
ReadingJson(body) == [ status |-> "readingJson", value |-> <<>>, body |-> body ]

\* The promise of an async function: fulfilled by a return, rejected by a throw
settle(c) ==
  IF c.type = "throw" THEN [ status |-> "rejected", value |-> <<>> ]
  ELSE [ status |-> "fulfilled", value |-> c.value ]

settled(call) == call.status \in { "fulfilled", "rejected" }

\* SerpApiService.searchEvents
\* a catch block that throws the error on
serpCatchRethrow(c) == c

serpCatch(c) == IF c.type = "throw" THEN Return(<<>>) ELSE c

serpStart(key) ==
  IF ~stringTruthy(key) THEN settle(Return(<<>>)) ELSE Pending("fetching")

serpOnFetch(response) ==
  CASE response.outcome = "networkError" -> settle(serpCatch(Throw))
    [] response.outcome = "notOk" -> settle(serpCatch(Return(<<>>)))
    [] response.outcome = "ok" -> ReadingJson(response.body)

\* start and end are the two Date objects made before the callback
serpDateKeeps(conf, start, end) ==
  getTime(conf.startDate) >= start /\ getTime(conf.startDate) <= end

serpBody(body, startDate, endDate) ==
  CASE body.kind = "invalidJson" -> Throw
    [] body.kind = "error" -> Return(<<>>)
    [] body.kind = "noEvents" -> Return(<<>>)
    [] body.kind = "wrongShape" -> Throw
    [] body.kind = "events" ->
         LET conferences == [ i \in 1..Len(body.events) |-> convertSerpApiToConference(body.events[i], i - 1) ]
         IN  IF stringTruthy(startDate) /\ stringTruthy(endDate)
             THEN LET start == getTime(startDate)
                      end == getTime(endDate)
                  IN  Return(SelectSeq(conferences, LAMBDA c : serpDateKeeps(c, start, end)))
             ELSE Return(conferences)

serpOnJson(body, startDate, endDate) == settle(serpCatch(serpBody(body, startDate, endDate)))

\* TicketmasterApiService.searchEvents
ticketmasterCatch(c) == IF c.type = "throw" THEN Return(<<>>) ELSE c

\* an "else if (startDate)" branch that appends both date parameters
ticketmasterParamsBothFromStart(location, startDate, endDate) ==
  [ keyword |-> "conference", size |-> "50", sort |-> "date,asc" ]
  @@ (IF stringTruthy(location) THEN [ city |-> location ] ELSE << >>)
  @@ (IF stringTruthy(startDate)
      THEN [ startDateTime |-> startDate \o "T00:00:00Z", endDateTime |-> endDate \o "T23:59:59Z" ]
      ELSE << >>)

\* The URLSearchParams of the request (the apikey left out)
ticketmasterParams(location, startDate, endDate) ==
  [ keyword |-> "conference", size |-> "50", sort |-> "date,asc" ]
  @@ (IF stringTruthy(location) THEN [ city |-> location ] ELSE << >>)
  @@ (IF stringTruthy(startDate) /\ stringTruthy(endDate)
      THEN [ startDateTime |-> startDate \o "T00:00:00Z", endDateTime |-> endDate \o "T23:59:59Z" ]
      ELSE IF stringTruthy(startDate)
           THEN [ startDateTime |-> startDate \o "T00:00:00Z" ]
           ELSE << >>)

ticketmasterStart(key, f) ==
  IF ~stringTruthy(key) THEN settle(Return(<<>>))
  ELSE Pending("fetching") @@ [ params |-> ticketmasterParams(f.location, f.startDate, f.endDate) ]

ticketmasterOnFetch(response) ==
  CASE response.outcome = "networkError" -> settle(ticketmasterCatch(Throw))
    [] response.outcome = "notOk" -> Pending("readingText")
    [] response.outcome = "ok" -> ReadingJson(response.body)

ticketmasterOnText(outcome) ==
  IF outcome = "error" THEN settle(ticketmasterCatch(Throw))
  ELSE settle(ticketmasterCatch(Return(<<>>)))

ticketmasterBody(body) ==
  CASE body.kind = "invalidJson" -> Throw
    [] body.kind = "noEvents" -> Return(<<>>)
    [] body.kind = "wrongShape" -> Throw
    [] body.kind = "events" -> Return([ i \in 1..Len(body.events) |-> convertTicketmasterToConference(body.events[i]) ])

ticketmasterOnJson(body) == settle(ticketmasterCatch(ticketmasterBody(body)))

\* EventbriteApiService.searchEvents
eventbriteCatch(c) == IF c.type = "throw" THEN Return(<<>>) ELSE c

eventbriteStart(key) ==
  IF ~stringTruthy(key) THEN settle(Return(<<>>)) ELSE Pending("fetching")

eventbriteOnFetch(response) ==
  CASE response.outcome = "networkError" -> settle(eventbriteCatch(Throw))
    [] response.outcome = "notOk" -> settle(eventbriteCatch(Throw))
    [] response.outcome = "ok" -> ReadingJson(response.body)

eventbriteBody(body) ==
  CASE body.kind = "invalidJson" -> Throw
    [] body.kind = "wrongShape" -> Throw
    [] body.kind = "events" -> Return([ i \in 1..Len(body.events) |-> convertEventbriteToConference(body.events[i]) ])

eventbriteOnJson(body) == settle(eventbriteCatch(eventbriteBody(body)))

----------------------------------------------------------------------------
(* Inputs: the filter objects a caller passes and what the network answers *)

FilterSubjects == { << >>, << "Healthcare" >>, TOP_SUBJECTS }
FilterLocations == { "", "Boston, MA", "Springfield" }
FilterDateRanges == { << "", "" >>, << "2024-10-24", "" >>, << "2024-10-24", "2024-10-24" >> }
FilterRadii == { 50 }

\* A call narrows by subject or by date
FiltersWithoutRadius ==
  { f \in { [ subjects |-> s, location |-> l, startDate |-> d[1], endDate |-> d[2] ] : s \in FilterSubjects, l \in FilterLocations, d \in FilterDateRanges } :
      f.subjects = << >> \/ ~stringTruthy(f.startDate) }

\* radius is optional; the search form always sends one, and a direct caller
\* may leave it out (which only matters when a location is given; the calls
\* without one name a city of the lookup table)
SearchFilters ==
  { f \in FiltersWithoutRadius : getCityCoordinates(f.location) # null }
  \cup { f @@ [ radius |-> r ] : f \in FiltersWithoutRadius, r \in FilterRadii }

ApiKeys == { "", "key" }

\* The builds: no key configured, one key configured, all three configured
Environments ==
  { e \in [ SERPAPI_API_KEY : ApiKeys, TICKETMASTER_API_KEY : ApiKeys, EVENTBRITE_API_KEY : ApiKeys ] :
      \/ e.SERPAPI_API_KEY = e.TICKETMASTER_API_KEY /\ e.TICKETMASTER_API_KEY = e.EVENTBRITE_API_KEY
      \/ Cardinality({ k \in DOMAIN e : e[k] = "key" }) = 1 }

NoEvents(kind) == [ kind |-> kind, events |-> << >> ]

\* What fetch(url) settles with: a rejection, a response with an error
\* status, or a success response carrying one of the given bodies
Responses(bodies) ==
  { [ outcome |-> o, body |-> NoEvents("none") ] : o \in { "networkError", "notOk" } }
  \cup { [ outcome |-> "ok", body |-> b ] : b \in bodies }

SeqsUpTo(S, n) == UNION { [ 1..k -> S ] : k \in 0..n }

SerpEventPool ==
  { [ title |-> "Tech Summit 2025", start_date |-> "2025-06-15", city |-> "Boston", state |-> "MA", subject |-> "Technology", description |-> "", link |-> "", venueName |-> "" ],
    [ title |-> "Health Expo", start_date |-> "2024-10-24", city |-> "Tacoma", state |-> "WA", subject |-> "Healthcare", description |-> "Clinicians and medical researchers meet for two days of talks.", link |-> "https://health.example/expo", venueName |-> "Expo Hall" ] }

SerpBodies ==
  { NoEvents(k) : k \in { "invalidJson", "error", "noEvents", "wrongShape" } }
  \cup { [ kind |-> "events", events |-> es ] : es \in SeqsUpTo(SerpEventPool, MaxSerpEvents) \ { << >> } }

TicketmasterEventPool ==
  { [ id |-> "tm-1", name |-> "tech  summit 2025 ", subject |-> "Other", city |-> "Boston", stateCode |-> "MA", venueLocation |-> [ latitude |-> 423601, longitude |-> -710589 ], localDate |-> "2025-06-15", endLocalDate |-> "", info |-> "", url |-> "https://tm.example/1", priceRange |-> [ min |-> 100, max |-> 300 ] ],
    [ id |-> "tm-2", name |-> "Health Expo", subject |-> "Healthcare", city |-> "Seattle", stateCode |-> "WA", venueLocation |-> [ latitude |-> 476062, longitude |-> -1223321 ], localDate |-> "2024-10-24", endLocalDate |-> "2024-10-25", info |-> "", url |-> "https://tm.example/2" ] }

TicketmasterBodies ==
  { NoEvents(k) : k \in { "invalidJson", "noEvents", "wrongShape" } }
  \cup { [ kind |-> "events", events |-> es ] : es \in SeqsUpTo(TicketmasterEventPool, MaxTicketmasterEvents) \ { << >> } }

EventbriteEventPool ==
  { [ id |-> "eb-1", name |-> "Startup Week", subject |-> "Business", city |-> "Denver", region |-> "CO", startLocal |-> "2024-11-01T09:00:00", endLocal |-> "2024-11-03T17:00:00", description |-> "A week for founders.", url |-> "https://eb.example/1", organizerName |-> "", capacity |-> 200, minimumTicketPrice |-> 25 ] }

EventbriteBodies ==
  { NoEvents(k) : k \in { "invalidJson", "wrongShape" } }
  \cup { [ kind |-> "events", events |-> es ] : es \in SeqsUpTo(EventbriteEventPool, MaxEventbriteEvents) }

----------------------------------------------------------------------------
(* The state machine *)

NoFilters == [ subjects |-> << >>, location |-> "", startDate |-> "", endDate |-> "" ]

\* The App component as mounted: no search submitted yet
UiInitial ==
  /\ conferencesState = [ list |-> << >> ]
  /\ isLoading = FALSE
  /\ searchPerformed = FALSE
  /\ timers = << >>
  /\ calls = << >>

Init ==
  /\ env \in Environments
  /\ mockConferences = mockConferencesData
  /\ pc = "idle"
  /\ filters = NoFilters
  /\ allResults = << >>
  /\ deduplicated = << >>
  /\ returned = << >>
  /\ path = "none"
  /\ serp = NotStarted
  /\ tm = NotStarted
  /\ eb = NotStarted
  /\ UiInitial

\* searchConferences(f) up to its first await: SerpApiService.searchEvents is
\* called and awaited; TicketmasterApiService.searchEvents is not called yet.
Search(f) ==
  /\ pc = "idle"
  /\ eb.status = "notStarted"
  /\ filters' = f
  /\ allResults' = << >>
  /\ serp' = serpStart(env.SERPAPI_API_KEY)
  /\ pc' = "awaitSerp"
  /\ UNCHANGED << uiVars, env, mockConferences, deduplicated, returned, path, tm, eb >>

\* fetch(url) of the SerpAPI call settles
SerpFetchSettle(response) ==
  /\ serp.status = "fetching"
  /\ serp' = serpOnFetch(response)
  /\ UNCHANGED << uiVars, env, mockConferences, pc, filters, allResults, deduplicated, returned, path, tm, eb >>

\* response.json() of the SerpAPI call settles
SerpJsonSettle ==
  /\ serp.status = "readingJson"
  /\ serp' = serpOnJson(serp.body, filters.startDate, filters.endDate)
  /\ UNCHANGED << uiVars, env, mockConferences, pc, filters, allResults, deduplicated, returned, path, tm, eb >>

\* The SerpAPI request is never answered: fetch(url) stays pending for good
SerpLost ==
  /\ serp.status = "fetching"
  /\ serp' = Pending("lost")
  /\ UNCHANGED << uiVars, env, mockConferences, pc, filters, allResults, deduplicated, returned, path, tm, eb >>

\* a merge that starts over when an adapter came back empty
pushResultsReset(all, call) ==
  IF call.status = "fulfilled" /\ Len(call.value) > 0 THEN all \o call.value ELSE << >>

\* a merge that puts the later adapter's records in front
pushResultsFront(all, call) ==
  IF call.status = "fulfilled" THEN call.value \o all ELSE all

\* allResults.push(...results) in the try block; a rejection goes to the catch
pushResults(all, call) ==
  IF call.status = "fulfilled" THEN all \o call.value ELSE all

\* searchConferences resumes after "await SerpApiService.searchEvents", and
\* runs to "await TicketmasterApiService.searchEvents"
ResumeAfterSerp ==
  /\ pc = "awaitSerp"
  /\ settled(serp)
  /\ allResults' = pushResults(allResults, serp)
  /\ tm' = ticketmasterStart(env.TICKETMASTER_API_KEY, filters)
  /\ pc' = "awaitTicketmaster"
  /\ UNCHANGED << uiVars, env, mockConferences, filters, deduplicated, returned, path, serp, eb >>

TicketmasterFetchSettle(response) ==
  /\ tm.status = "fetching"
  /\ tm' = ticketmasterOnFetch(response)
  /\ UNCHANGED << uiVars, env, mockConferences, pc, filters, allResults, deduplicated, returned, path, serp, eb >>

\* response.text() of an error response settles
TicketmasterTextSettle(outcome) ==
  /\ tm.status = "readingText"
  /\ tm' = ticketmasterOnText(outcome)
  /\ UNCHANGED << uiVars, env, mockConferences, pc, filters, allResults, deduplicated, returned, path, serp, eb >>

TicketmasterJsonSettle ==
  /\ tm.status = "readingJson"
  /\ tm' = ticketmasterOnJson(tm.body)
  /\ UNCHANGED << uiVars, env, mockConferences, pc, filters, allResults, deduplicated, returned, path, serp, eb >>

TicketmasterLost ==
  /\ tm.status = "fetching"
  /\ tm' = Pending("lost")
  /\ UNCHANGED << uiVars, env, mockConferences, pc, filters, allResults, deduplicated, returned, path, serp, eb >>

\* searchConferences resumes after "await TicketmasterApiService.searchEvents"
\* and runs to its end: deduplication, filters, sort, fallback.
ResumeAfterTicketmaster ==
  /\ pc = "awaitTicketmaster"
  /\ settled(tm)
  /\ LET all == pushResults(allResults, tm)
         done == processResults(filters, all, mockConferences)
     IN  /\ allResults' = all
         /\ deduplicated' = done.deduplicated
         /\ returned' = done.value
         /\ path' = done.path
         /\ mockConferences' = done.mock
         /\ pc' = IF done.type = "throw" THEN "rejected" ELSE "resolved"
  /\ UNCHANGED << uiVars, env, filters, serp, tm, eb >>

\* The caller has taken the settled promise; the call's locals are gone.
Finish ==
  /\ pc \in { "resolved", "rejected" }
  /\ pc' = "idle"
  /\ filters' = NoFilters
  /\ allResults' = << >>
  /\ deduplicated' = << >>
  /\ returned' = << >>
  /\ path' = "none"
  /\ serp' = NotStarted
  /\ tm' = NotStarted
  /\ UNCHANGED << uiVars, env, mockConferences, eb >>

\* EventbriteApiService.searchEvents, which searchConferences does not call
EventbriteCall ==
  /\ pc = "idle"
  /\ eb.status = "notStarted"
  /\ eb' = eventbriteStart(env.EVENTBRITE_API_KEY)
  /\ UNCHANGED << uiVars, env, mockConferences, pc, filters, allResults, deduplicated, returned, path, serp, tm >>

EventbriteFetchSettle(response) ==
  /\ eb.status = "fetching"
  /\ eb' = eventbriteOnFetch(response)
  /\ UNCHANGED << uiVars, env, mockConferences, pc, filters, allResults, deduplicated, returned, path, serp, tm >>

EventbriteJsonSettle ==
  /\ eb.status = "readingJson"
  /\ eb' = eventbriteOnJson(eb.body)
  /\ UNCHANGED << uiVars, env, mockConferences, pc, filters, allResults, deduplicated, returned, path, serp, tm >>

EventbriteLost ==
  /\ eb.status = "fetching"
  /\ eb' = Pending("lost")
  /\ UNCHANGED << uiVars, env, mockConferences, pc, filters, allResults, deduplicated, returned, path, serp, tm >>

EventbriteFinish ==
  /\ settled(eb)
  /\ eb' = NotStarted
  /\ UNCHANGED << uiVars, env, mockConferences, pc, filters, allResults, deduplicated, returned, path, serp, tm >>

Next ==
  \/ \E f \in SearchFilters : Search(f)
  \/ \E response \in Responses(SerpBodies) : SerpFetchSettle(response)
  \/ SerpJsonSettle
  \/ SerpLost
  \/ ResumeAfterSerp
  \/ \E response \in Responses(TicketmasterBodies) : TicketmasterFetchSettle(response)
  \/ \E outcome \in { "ok", "error" } : TicketmasterTextSettle(outcome)
  \/ TicketmasterJsonSettle
  \/ TicketmasterLost
  \/ ResumeAfterTicketmaster
  \/ Finish
  \/ EventbriteCall
  \/ \E response \in Responses(EventbriteBodies) : EventbriteFetchSettle(response)
  \/ EventbriteJsonSettle
  \/ EventbriteLost
  \/ EventbriteFinish

Spec == Init /\ [][Next]_vars

----------------------------------------------------------------------------
(* The filter stages on their own: PHASE 2 and PHASE 3 of searchConferences *)
(* applied to one record, for records with and without the optional        *)
(* coordinates.                                                            *)

\* A Conference whose optional location.coordinates is undefined
WithoutCoordinates(c, city, state) ==
  [ c EXCEPT !.location = [ city |-> city, state |-> state, country |-> c.location.country ] ]

StageRecords ==
  { mockConferencesData[2],
    mockConferencesData[8],
    WithoutCoordinates(mockConferencesData[2], "Boston", "MA"),
    WithoutCoordinates(mockConferencesData[8], "Spring", "TX") }

\* The filter stages are also run with a search location that is not in the
\* lookup table of getCityCoordinates and with a range that spans the year
StageFilters ==
  LET withoutRadius ==
        { [ subjects |-> s, location |-> l, startDate |-> d[1], endDate |-> d[2] ] :
            s \in FilterSubjects, l \in { "Boston, MA", "Springfield" },
            d \in FilterDateRanges \cup { << "2024-01-01", "2024-12-31" >> } }
  IN  withoutRadius \cup { f @@ [ radius |-> r ] : f \in withoutRadius, r \in FilterRadii }

StageInit ==
  /\ env = [ SERPAPI_API_KEY |-> "", TICKETMASTER_API_KEY |-> "", EVENTBRITE_API_KEY |-> "" ]
  /\ \E c \in StageRecords : allResults = << c >> /\ mockConferences = << c >>
  /\ filters \in StageFilters
  /\ pc = "stage"
  /\ deduplicated = << >>
  /\ returned = << >>
  /\ path = "none"
  /\ serp = NotStarted
  /\ tm = NotStarted
  /\ eb = NotStarted
  /\ UiInitial

\* Lines 174-240 on allResults
ProviderStages ==
  /\ pc = "stage"
  /\ LET api == apiPath(filters, allResults)
     IN  /\ deduplicated' = api.deduplicated
         /\ returned' = api.value
  /\ path' = "api"
  /\ pc' = "staged"
  /\ UNCHANGED << uiVars, env, mockConferences, filters, allResults, serp, tm, eb >>

\* Lines 246-305 on the dataset
FallbackStages ==
  /\ pc = "stage"
  /\ LET fb == mockPath(filters, mockConferences)
     IN  /\ returned' = fb.value
         /\ mockConferences' = fb.mock
  /\ path' = "mock"
  /\ pc' = "staged"
  /\ UNCHANGED << uiVars, env, filters, allResults, deduplicated, serp, tm, eb >>

StageNext == ProviderStages \/ FallbackStages

StageSpec == StageInit /\ [][StageNext]_vars

----------------------------------------------------------------------------
(* The App component: handleSearch, its one-second timer and the submit    *)
(* button of SearchForm.  No API key is configured, so both adapters       *)
(* return [] and every call goes through the fallback path; what remains   *)
(* of a call is the promise the async function returned, which settles     *)
(* some time after the callback that made it has finished.                 *)

MaxSearches == 3

\* handleSubmit builds the filter from the form's state; radius is always set
FormFilters ==
  { f \in SearchFilters : Has(f, "radius") /\ ~stringTruthy(f.startDate) /\ f.location # "Springfield" /\ f.subjects # TOP_SUBJECTS }

\* <button type="submit" disabled={isLoading}>
submitDisabled(loading) == loading

UiInit ==
  /\ env = [ SERPAPI_API_KEY |-> "", TICKETMASTER_API_KEY |-> "", EVENTBRITE_API_KEY |-> "" ]
  /\ mockConferences = mockConferencesData
  /\ pc = "idle"
  /\ filters = NoFilters
  /\ allResults = << >>
  /\ deduplicated = << >>
  /\ returned = << >>
  /\ path = "none"
  /\ serp = NotStarted
  /\ tm = NotStarted
  /\ eb = NotStarted
  /\ UiInitial

\* The form is submitted: handleSearch runs up to setTimeout
Submit(f) ==
  /\ ~submitDisabled(isLoading)
  /\ Len(timers) + Len(calls) < MaxSearches
  /\ isLoading' = TRUE
  /\ searchPerformed' = FALSE
  /\ timers' = Append(timers, f)
  /\ UNCHANGED << env, mockConferences, pc, filters, allResults, deduplicated, returned, path, serp, tm, eb, conferencesState, calls >>

\* The oldest timer runs its callback: searchConferences is called, not
\* awaited, and the promise it returns goes into the conferences state
TimerFires ==
  /\ Len(timers) > 0
  /\ calls' = Append(calls, [ filters |-> Head(timers), status |-> "pending", value |-> << >> ])
  /\ conferencesState' = [ promise |-> Len(calls) + 1 ]
  /\ isLoading' = FALSE
  /\ searchPerformed' = TRUE
  /\ timers' = Tail(timers)
  /\ UNCHANGED << env, mockConferences, pc, filters, allResults, deduplicated, returned, path, serp, tm, eb >>

\* A searchConferences call runs past its awaits to its return statement;
\* nothing is subscribed to its promise
CallResolves(i) ==
  /\ i <= Len(calls)
  /\ calls[i].status = "pending"
  /\ LET done == processResults(calls[i].filters, << >>, mockConferences)
     IN  /\ calls' = [ calls EXCEPT ![i] = [ filters |-> @.filters, status |-> "fulfilled", value |-> done.value ] ]
         /\ mockConferences' = done.mock
  /\ UNCHANGED << env, pc, filters, allResults, deduplicated, returned, path, serp, tm, eb, conferencesState, isLoading, searchPerformed, timers >>

UiNext ==
  \/ \E f \in FormFilters : Submit(f)
  \/ TimerFires
  \/ \E i \in 1..MaxSearches : CallResolves(i)

UiSpec == UiInit /\ [][UiNext]_vars

----------------------------------------------------------------------------
(* deduplicateConferences and the final sort on their own, applied to     *)
(* lists of records that share keys, scores and start dates.              *)

MaxListLen == 3

ListRecord(id, title, startDate, description, organizer) ==
  [ id |-> id, title |-> title, subject |-> "Science",
    location |-> [ city |-> "Denver", state |-> "CO", country |-> "USA" ],
    startDate |-> startDate, endDate |-> startDate,
    description |-> description, organizer |-> organizer ]

\* Three records of one key (scores 0, 3 and 3), a record of another key on
\* the same day (score 2, its attendeeCount is 0), and a complete record on
\* an earlier day (score 8).
ListRecords ==
  { ListRecord("a1", "Data Summit", "2024-10-24", "", "Event Organizer") @@ [ website |-> "#" ],
    [ ListRecord("a2", "data  summit ", "2024-10-24", "Two days.", "Ticketmaster Event")
        EXCEPT !.location = @ @@ [ coordinates |-> [ lat |-> 397392, lng |-> -1049903 ] ] ]
      @@ [ price |-> [ min |-> 10, max |-> 20, currency |-> "USD" ] ],
    ListRecord("a3", "Data Summit", "2024-10-24", "Researchers and engineers present a year of work on data systems.", "")
      @@ [ attendeeCount |-> 300 ],
    ListRecord("b1", "Art Fair", "2024-10-24", "", "Denver Arts Council")
      @@ [ website |-> "https://artfair.example", attendeeCount |-> 0 ],
    mockConferencesData[1] }

ListInit ==
  /\ env = [ SERPAPI_API_KEY |-> "", TICKETMASTER_API_KEY |-> "", EVENTBRITE_API_KEY |-> "" ]
  /\ mockConferences = mockConferencesData
  /\ allResults \in SeqsUpTo(ListRecords, MaxListLen)
  /\ filters = NoFilters
  /\ pc = "list"
  /\ deduplicated = << >>
  /\ returned = << >>
  /\ path = "none"
  /\ serp = NotStarted
  /\ tm = NotStarted
  /\ eb = NotStarted
  /\ UiInitial

\* const deduplicated = this.deduplicateConferences(allResults)
Deduplicate ==
  /\ pc = "list"
  /\ deduplicated' = deduplicateConferences(allResults)
  /\ pc' = "deduplicated"
  /\ UNCHANGED << uiVars, env, mockConferences, filters, allResults, returned, path, serp, tm, eb >>

\* return results.sort(...)
SortList ==
  /\ pc = "list"
  /\ returned' = sortByStartDate(allResults)
  /\ pc' = "sorted"
  /\ UNCHANGED << uiVars, env, mockConferences, filters, allResults, deduplicated, path, serp, tm, eb >>

ListNext == Deduplicate \/ SortList

ListSpec == ListInit /\ [][ListNext]_vars

----------------------------------------------------------------------------
(* Properties *)

Resolved == pc = "resolved"

Staged == pc = "staged"

\* The provider path's filter stages (FILTER 1 and FILTER 2) as one predicate
providerStagesKeep(f, c) ==
  /\ apiSubjectApplies(f) => apiSubjectKeeps(f, c)
  /\ apiLocationApplies(f) =>
       LET searchCoords == getCityCoordinates(f.location)
       IN  IF searchCoords # null THEN apiLocationKeepsByCoords(f, searchCoords, c)
           ELSE apiLocationKeepsByText(f, c)

\* The fallback path's subject and location stages as one predicate
mockSubjectLocationKeep(f, c) ==
  /\ mockSubjectApplies(f) => mockSubjectKeeps(f, c)
  /\ mockLocationApplies(f) => mockLocationKeeps(f, getCityCoordinates(f.location), c)

\* The fallback path's three stages as one predicate
mockStagesKeep(f, c) ==
  /\ mockSubjectLocationKeep(f, c)
  /\ mockDateApplies(f) => mockDateKeeps(getTime(f.startDate), getTime(f.endDate), c)

\* C1: when no deduplicated provider record passes the provider filters (in
\* particular when every adapter returned an empty list), the call returns the
\* built-in dataset as written in the source, filtered by the same filter
\* object and sorted ascending by startDate.
C1_FallbackWhenProviderResultEmpty ==
  (Resolved /\ ~\E i \in 1..Len(deduplicated) : providerStagesKeep(filters, deduplicated[i]))
    => returned = sortByStartDate(SelectSeq(mockConferencesData, LAMBDA c : mockStagesKeep(filters, c)))

C1_Witness ==
  /\ Resolved
  /\ Len(allResults) > 0
  /\ ~\E i \in 1..Len(deduplicated) : providerStagesKeep(filters, deduplicated[i])
  /\ Len(returned) > 0
  /\ Len(returned) < Len(mockConferencesData)

\* C2: a searchConferences call never rejects: not when an adapter call fails,
\* not when no record matches, not when the location is not in the lookup table.
C2_NeverRejects == pc # "rejected"

C2_Witness ==
  /\ Resolved
  /\ stringTruthy(filters.location)
  /\ radiusTruthy(filters)
  /\ getCityCoordinates(filters.location) = null
  /\ \E i \in 1..Len(deduplicated) : Has(deduplicated[i].location, "coordinates")
  /\ Len(serp.value) = 0
  /\ Len(returned) = 0

\* C3: when one adapter call came back empty and the other returned records,
\* the merged list is exactly the other adapter's records, and the call returns
\* what deduplication, filtering and sorting make of those records.
C3_FailedAdapterLeavesTheOther ==
  Resolved =>
    /\ Len(serp.value) = 0 => allResults = tm.value
    /\ Len(tm.value) = 0 => allResults = serp.value
    /\ (Len(serp.value) = 0 /\ Len(tm.value) > 0) => returned = processResults(filters, tm.value, mockConferences).value
    /\ (Len(tm.value) = 0 /\ Len(serp.value) > 0) => returned = processResults(filters, serp.value, mockConferences).value

C3_Witness ==
  /\ Resolved
  /\ Len(tm.value) = 0
  /\ Len(serp.value) = 2
  /\ path = "api"
  /\ Len(returned) = 2

\* C4: all adapter calls of a search are started before the aggregator waits
\* on any of them: while it waits for SerpAPI, the Ticketmaster call has
\* been started.
C4_AllAdaptersStartedBeforeWaiting ==
  pc = "awaitSerp" => tm.status # "notStarted"

\* C5: an adapter request that never receives a response is ended by the
\* adapter's own timeout, so searchConferences is never left waiting on a
\* request that nothing will settle.
C5_NoCallWaitsOnLostRequest ==
  /\ pc = "awaitSerp" => serp.status # "lost"
  /\ pc = "awaitTicketmaster" => tm.status # "lost"

\* C6: each adapter's searchEvents never rejects, and a missing API key, a
\* network error, a non-success HTTP status and a malformed response body each
\* make it resolve to the empty list.
C6_AdaptersResolveToLists ==
  [][ LET Failed(before, after) ==
            (/\ settled(after)
             /\ \/ before.status \in { "notStarted", "fetching", "readingText" }
                \/ before.status = "readingJson" /\ before.body.kind \in { "invalidJson", "wrongShape" })
              => after = [ status |-> "fulfilled", value |-> << >> ]
      IN  /\ serp'.status # "rejected" /\ tm'.status # "rejected" /\ eb'.status # "rejected"
          /\ Failed(serp, serp')
          /\ Failed(tm, tm')
          /\ Failed(eb, eb') ]_vars

C6_Witness ==
  /\ serp = [ status |-> "fulfilled", value |-> << >> ]
  /\ tm = [ status |-> "fulfilled", value |-> << >> ]
  /\ stringTruthy(env.SERPAPI_API_KEY)
  /\ stringTruthy(env.TICKETMASTER_API_KEY)

\* C7: when the filter has both dates, a record that passed the subject and
\* location stages is in the returned list exactly when record.startDate <=
\* filter.endDate and record.endDate >= filter.startDate, for provider records
\* and for fallback records.
C7_DateOverlapDecides ==
  LET overlaps(f, c) ==
        getTime(c.startDate) <= getTime(f.endDate) /\ getTime(c.endDate) >= getTime(f.startDate)
  IN
  (Resolved /\ mockDateApplies(filters)) =>
    /\ path = "api" =>
         \A i \in 1..Len(deduplicated) :
           providerStagesKeep(filters, deduplicated[i])
             => (arrayIncludes(returned, deduplicated[i]) <=> overlaps(filters, deduplicated[i]))
    /\ path = "mock" =>
         \A i \in 1..Len(mockConferences) :
           mockSubjectLocationKeep(filters, mockConferences[i])
             => (arrayIncludes(returned, mockConferences[i]) <=> overlaps(filters, mockConferences[i]))

\* C8: the fallback path applies the same subject, location and date
\* predicates as the provider path: a record passes the one path's filter
\* stages exactly when it passes the other's.
C8_SameFilterStages ==
  /\ \A i \in 1..Len(allResults) :
       providerStagesKeep(filters, allResults[i]) <=> mockStagesKeep(filters, allResults[i])
  /\ \A i \in 1..Len(mockConferences) :
       providerStagesKeep(filters, mockConferences[i]) <=> mockStagesKeep(filters, mockConferences[i])

\* C9: every returned list, from the providers or from the fallback dataset,
\* is in non-decreasing startDate order.
C9_ReturnedSortedByStartDate ==
  Resolved =>
    \A i \in 1..Len(returned) : \A j \in i..Len(returned) :
      getTime(returned[i].startDate) <= getTime(returned[j].startDate)

C9_Witness ==
  /\ Resolved
  /\ path = "api"
  /\ Len(returned) = 2
  /\ deduplicated = << returned[2], returned[1] >>
  /\ getTime(returned[1].startDate) < getTime(returned[2].startDate)

\* C10: deduplicateConferences returns exactly one record per distinct dedup
\* key of its input: no two returned records share a key, every returned
\* record is an input record, and every input key is represented.
C10_OneRecordPerKey ==
  (Resolved /\ Len(allResults) > 0) =>
    /\ \A i \in 1..Len(deduplicated) : \A j \in 1..Len(deduplicated) :
         dedupKey(deduplicated[i]) = dedupKey(deduplicated[j]) => i = j
    /\ \A i \in 1..Len(deduplicated) : arrayIncludes(allResults, deduplicated[i])
    /\ \A i \in 1..Len(allResults) :
         \E j \in 1..Len(deduplicated) : dedupKey(deduplicated[j]) = dedupKey(allResults[i])

C10_Witness ==
  /\ Resolved
  /\ Len(allResults) = 4
  /\ Len(deduplicated) = 2
  /\ \E i \in 1..4 : ~arrayIncludes(deduplicated, allResults[i])
  /\ arrayIncludes(deduplicated, allResults[3])

C12_DifferentCitiesBothSurvive ==
  (Resolved /\ Len(allResults) > 0) =>
    \A i \in 1..Len(allResults) : \A j \in 1..Len(allResults) :
      (/\ allResults[i].title = allResults[j].title
       /\ allResults[i].startDate = allResults[j].startDate
       /\ allResults[i].location.city # allResults[j].location.city)
        => arrayIncludes(deduplicated, allResults[i]) /\ arrayIncludes(deduplicated, allResults[j])

\* C13: among merged records with the same dedup key the kept one has the
\* highest completeness score, whether it arrived before or after the others:
\* no merged record of a key scores higher than the deduplicated record of
\* that key.
C13_HigherScoreKept ==
  (Resolved /\ Len(allResults) > 0) =>
    \A k \in 1..Len(deduplicated) : \A i \in 1..Len(allResults) :
      dedupKey(allResults[i]) = dedupKey(deduplicated[k])
        => calculateCompletenessScore(allResults[i]) <= calculateCompletenessScore(deduplicated[k])

C13_Witness ==
  /\ Resolved
  /\ Len(allResults) = 4
  /\ deduplicated = << allResults[3], allResults[2] >>
  /\ dedupKey(allResults[1]) = dedupKey(allResults[3])
  /\ dedupKey(allResults[2]) = dedupKey(allResults[4])
  /\ calculateCompletenessScore(allResults[1]) = 0
  /\ Has(allResults[3].location, "coordinates") /\ Has(allResults[3], "price")
  /\ calculateCompletenessScore(allResults[3]) >= 4
  /\ calculateCompletenessScore(allResults[2]) > calculateCompletenessScore(allResults[4])

\* C14: of two different merged records with the same dedup key and equal
\* completeness scores the later one is dropped: the first-inserted one stays.
C14_FirstKeptOnEqualScores ==
  (Resolved /\ Len(allResults) > 0) =>
    \A i \in 1..Len(allResults) : \A j \in (i + 1)..Len(allResults) :
      (/\ dedupKey(allResults[i]) = dedupKey(allResults[j])
       /\ calculateCompletenessScore(allResults[i]) = calculateCompletenessScore(allResults[j])
       /\ allResults[i] # allResults[j])
        => ~arrayIncludes(deduplicated, allResults[j])

C14_Witness ==
  /\ Resolved
  /\ Len(allResults) = 2
  /\ dedupKey(allResults[1]) = dedupKey(allResults[2])
  /\ calculateCompletenessScore(allResults[1]) = calculateCompletenessScore(allResults[2])
  /\ allResults[1].id # allResults[2].id
  /\ deduplicated = << allResults[1] >>

\* C15: a search with the full 11-category list returns the same list as the
\* search with no subjects, for the same adapter responses, location, radius
\* and dates (the adapters are not passed the subjects).
C15_FullSubjectListIsNoFilter ==
  (Resolved /\ filters.subjects \in { << >>, TOP_SUBJECTS }) =>
    /\ returned = processResults([ filters EXCEPT !.subjects = << >> ], allResults, mockConferences).value
    /\ returned = processResults([ filters EXCEPT !.subjects = TOP_SUBJECTS ], allResults, mockConferences).value

C15_Witness ==
  /\ Resolved
  /\ filters.subjects = TOP_SUBJECTS
  /\ path = "api"
  /\ \E i \in 1..Len(returned) : ~arrayIncludes(TOP_SUBJECTS, returned[i].subject)

\* C16: when the filter's subject list is non-empty and shorter than the full
\* category list, every returned record's subject is in the list, on the
\* provider path and on the fallback path.
C16_ReturnedSubjectsSelected ==
  (Resolved /\ Len(filters.subjects) > 0 /\ Len(filters.subjects) < Len(TOP_SUBJECTS)) =>
    \A i \in 1..Len(returned) : arrayIncludes(filters.subjects, returned[i].subject)

C16_Witness ==
  /\ Resolved
  /\ filters.subjects = << "Healthcare" >>
  /\ path = "api"
  /\ Len(returned) > 0
  /\ \E i \in 1..Len(deduplicated) : deduplicated[i].subject # "Healthcare"

\* C17: when the search location is in the lookup table and a radius is
\* given, a record with coordinates that passed the other stages is returned
\* exactly when its distance from the search city is <= radius, on the
\* provider path and on the fallback path.
C17_CoordinateRecordsKeptWithinRadius ==
  LET searchCoords == getCityCoordinates(filters.location)
      within(c) == calculateDistance(searchCoords.lat, searchCoords.lng, c.location.coordinates.lat, c.location.coordinates.lng) <= filters.radius
  IN  (Resolved /\ stringTruthy(filters.location) /\ radiusTruthy(filters) /\ searchCoords # null) =>
        /\ path = "api" =>
             \A i \in 1..Len(deduplicated) :
               (/\ Has(deduplicated[i].location, "coordinates")
                /\ apiSubjectApplies(filters) => apiSubjectKeeps(filters, deduplicated[i]))
                 => (arrayIncludes(returned, deduplicated[i]) <=> within(deduplicated[i]))
        /\ path = "mock" =>
             \A i \in 1..Len(mockConferences) :
               (/\ Has(mockConferences[i].location, "coordinates")
                /\ mockSubjectApplies(filters) => mockSubjectKeeps(filters, mockConferences[i])
                /\ mockDateApplies(filters) => mockDateKeeps(getTime(filters.startDate), getTime(filters.endDate), mockConferences[i]))
                 => (arrayIncludes(returned, mockConferences[i]) <=> within(mockConferences[i]))

C17_Witness ==
  /\ Resolved
  /\ path = "api"
  /\ filters.location = "Boston, MA"
  /\ radiusTruthy(filters) /\ filters.radius = 50
  /\ \E i \in 1..Len(deduplicated) :
       /\ Has(deduplicated[i].location, "coordinates")
       /\ deduplicated[i].location.city = "Boston"
       /\ arrayIncludes(returned, deduplicated[i])
  /\ \E i \in 1..Len(deduplicated) :
       /\ Has(deduplicated[i].location, "coordinates")
       /\ deduplicated[i].location.city = "Seattle"
       /\ ~arrayIncludes(returned, deduplicated[i])

C19_UnknownLocationKeptByContainment ==
  LET location == toLowerCase(filters.location)
      contained(c) == \/ includes(toLowerCase(c.location.city), location)
                      \/ includes(location, toLowerCase(c.location.city))
                      \/ includes(toLowerCase(c.location.state), location)
  IN  (Staged /\ stringTruthy(filters.location) /\ getCityCoordinates(filters.location) = null) =>
        /\ path = "api" =>
             \A i \in 1..Len(deduplicated) :
               (apiSubjectApplies(filters) => apiSubjectKeeps(filters, deduplicated[i]))
                 => (arrayIncludes(returned, deduplicated[i]) <=> contained(deduplicated[i]))
        /\ path = "mock" =>
             \A i \in 1..Len(mockConferences) :
               (/\ mockSubjectApplies(filters) => mockSubjectKeeps(filters, mockConferences[i])
                /\ mockDateApplies(filters) => mockDateKeeps(getTime(filters.startDate), getTime(filters.endDate), mockConferences[i]))
                 => (arrayIncludes(returned, mockConferences[i]) <=> contained(mockConferences[i]))

\* C20 as stated: when the filter's startDate or endDate is empty no date
\* filtering occurs anywhere: the SerpAPI adapter returns every converted
\* event, the Ticketmaster request carries no date parameter, and every
\* record that passed the subject and location stages is returned.
C20_NoDateFilteringWhenADateIsAbsent ==
  [][ LET absent == ~stringTruthy(filters'.startDate) \/ ~stringTruthy(filters'.endDate)
      IN  /\ (absent /\ serp.status = "readingJson" /\ serp.body.kind = "events" /\ settled(serp'))
               => Len(serp'.value) = Len(serp.body.events)
          /\ (absent /\ tm'.status = "fetching")
               => ~Has(tm'.params, "startDateTime") /\ ~Has(tm'.params, "endDateTime")
          /\ (absent /\ pc' = "resolved" /\ path' = "api")
               => \A i \in 1..Len(deduplicated') :
                    providerStagesKeep(filters', deduplicated'[i]) => arrayIncludes(returned', deduplicated'[i])
          /\ (absent /\ pc' = "resolved" /\ path' = "mock")
               => \A i \in 1..Len(mockConferences') :
                    mockSubjectLocationKeep(filters', mockConferences'[i]) => arrayIncludes(returned', mockConferences'[i]) ]_vars

\* C20, amended: when the filter's startDate or endDate is empty, the SerpAPI
\* adapter returns every converted event and searchConferences returns every
\* record that passed the subject and location stages; the Ticketmaster
\* request carries no endDateTime, and carries startDateTime exactly when
\* startDate is given.
C20_NoLocalDateFilteringWhenADateIsAbsent ==
  [][ LET absent == ~stringTruthy(filters'.startDate) \/ ~stringTruthy(filters'.endDate)
      IN  /\ (absent /\ serp.status = "readingJson" /\ serp.body.kind = "events" /\ settled(serp'))
               => Len(serp'.value) = Len(serp.body.events)
          /\ (absent /\ tm'.status = "fetching")
               => /\ ~Has(tm'.params, "endDateTime")
                  /\ Has(tm'.params, "startDateTime") <=> stringTruthy(filters'.startDate)
          /\ (absent /\ pc' = "resolved" /\ path' = "api")
               => \A i \in 1..Len(deduplicated') :
                    providerStagesKeep(filters', deduplicated'[i]) => arrayIncludes(returned', deduplicated'[i])
          /\ (absent /\ pc' = "resolved" /\ path' = "mock")
               => \A i \in 1..Len(mockConferences') :
                    mockSubjectLocationKeep(filters', mockConferences'[i]) => arrayIncludes(returned', mockConferences'[i]) ]_vars

C20_Witness ==
  /\ filters.startDate = "2024-10-24"
  /\ filters.endDate = ""
  /\ serp.status = "fulfilled"
  /\ Len(serp.value) = 2
  /\ \E i \in 1..2 : getTime(serp.value[i].startDate) > getTime(filters.startDate)
  /\ tm.status = "fetching"
  /\ tm.params.startDateTime = "2024-10-24T00:00:00Z"

\* C22: the merged list is SerpAPI's records followed by Ticketmaster's, and
\* the returned list is a function of the filter and of the two adapter
\* results alone (the Ticketmaster call is only started once the SerpAPI call
\* has settled, so no completion order can change the merge).
C22_MergedInInvocationOrder ==
  Resolved =>
    /\ allResults = serp.value \o tm.value
    /\ returned = processResults(filters, serp.value \o tm.value, mockConferencesData).value

C22_Witness ==
  /\ Resolved
  /\ path = "api"
  /\ Len(serp.value) = 2
  /\ Len(tm.value) = 2
  /\ serp.value[1] # tm.value[1]
  /\ SubSeq(allResults, 1, 2) = serp.value
  /\ SubSeq(allResults, 3, 4) = tm.value

\* C23: when a location of the lookup table is given and the filter has no
\* radius, every returned record lies within 50 miles of the search city.
C23_DefaultRadiusFifty ==
  LET searchCoords == getCityCoordinates(filters.location)
  IN  (Resolved /\ stringTruthy(filters.location) /\ ~Has(filters, "radius") /\ searchCoords # null) =>
        \A i \in 1..Len(returned) :
          /\ Has(returned[i].location, "coordinates")
          /\ calculateDistance(searchCoords.lat, searchCoords.lng, returned[i].location.coordinates.lat, returned[i].location.coordinates.lng) <= 50

\* C27: the module-level dataset holds the records of the source file in the
\* order of the source file, whatever searches have run.
C27_DatasetNeverModified == mockConferences = mockConferencesData

\* C28: the returned list is drawn entirely from the adapter results or
\* entirely from the built-in dataset; when a deduplicated provider record
\* passes the provider filters the list is exactly those records, sorted.
C28_NeverAMixture ==
  Resolved =>
    /\ (\E i \in 1..Len(deduplicated) : providerStagesKeep(filters, deduplicated[i])) <=> path = "api"
    /\ path = "api" =>
         /\ returned = sortByStartDate(SelectSeq(deduplicated, LAMBDA c : providerStagesKeep(filters, c)))
         /\ \A i \in 1..Len(returned) : arrayIncludes(allResults, returned[i]) /\ ~arrayIncludes(mockConferencesData, returned[i])
    /\ path = "mock" =>
         \A i \in 1..Len(returned) : arrayIncludes(mockConferencesData, returned[i]) /\ ~arrayIncludes(allResults, returned[i])

C28_Witness ==
  /\ Resolved
  /\ path = "api"
  /\ Len(returned) = 1
  /\ Len(deduplicated) = 2
  /\ \E i \in 1..Len(mockConferencesData) : mockStagesKeep(filters, mockConferencesData[i])

C25_KeysInFirstOccurrenceOrder ==
  LET first(key) == CHOOSE i \in 1..Len(allResults) :
                      /\ dedupKey(allResults[i]) = key
                      /\ \A j \in 1..(i - 1) : dedupKey(allResults[j]) # key
  IN  pc = "deduplicated" =>
        \A i \in 1..Len(deduplicated) : \A j \in (i + 1)..Len(deduplicated) :
          first(dedupKey(deduplicated[i])) < first(dedupKey(deduplicated[j]))

C25_Witness ==
  /\ pc = "deduplicated"
  /\ Len(allResults) = 3
  /\ dedupKey(allResults[1]) = dedupKey(allResults[3])
  /\ dedupKey(allResults[1]) # dedupKey(allResults[2])
  /\ calculateCompletenessScore(allResults[3]) > calculateCompletenessScore(allResults[1])
  /\ deduplicated = << allResults[3], allResults[2] >>

\* C26: the sort is stable: the sorted list is in non-decreasing startDate
\* order and the records of each startDate are in the order they had before
\* the sort.
C26_TiesKeepInputOrder ==
  pc = "sorted" =>
    /\ \A i \in 1..Len(returned) : \A j \in i..Len(returned) :
         getTime(returned[i].startDate) <= getTime(returned[j].startDate)
    /\ \A k \in 1..Len(allResults) :
         SelectSeq(returned, LAMBDA c : c.startDate = allResults[k].startDate)
           = SelectSeq(allResults, LAMBDA c : c.startDate = allResults[k].startDate)

C26_Witness ==
  /\ pc = "sorted"
  /\ Len(allResults) = 3
  /\ returned = << allResults[2], allResults[1], allResults[3] >>
  /\ allResults[1].startDate = allResults[3].startDate
  /\ allResults[1] # allResults[3]

\* C29: the record kept for a key is the earliest input record among those of
\* that key with the highest completeness score, exactly as it was in the
\* input.
C29_EarliestOfTheBestKept ==
  pc = "deduplicated" =>
    \A k \in 1..Len(deduplicated) :
      LET same == { i \in 1..Len(allResults) : dedupKey(allResults[i]) = dedupKey(deduplicated[k]) }
          best == { i \in same : \A j \in same : calculateCompletenessScore(allResults[j]) <= calculateCompletenessScore(allResults[i]) }
      IN  /\ best # {}
          /\ deduplicated[k] = allResults[CHOOSE i \in best : \A j \in best : i <= j]

C29_Witness ==
  /\ pc = "deduplicated"
  /\ Len(allResults) = 3
  /\ \A i \in 1..3 : dedupKey(allResults[i]) = dedupKey(allResults[1])
  /\ calculateCompletenessScore(allResults[1]) = 0
  /\ calculateCompletenessScore(allResults[2]) = 3
  /\ calculateCompletenessScore(allResults[3]) = 3
  /\ allResults[2] # allResults[3]
  /\ deduplicated = << allResults[2] >>

\* C21: whenever the UI is in the completed state (not loading, search
\* performed), the displayed list is the list the most recently submitted
\* search returned.
C21_DisplaysLatestResult ==
  (~isLoading /\ searchPerformed) =>
    /\ Len(calls) + Len(timers) > 0
    /\ Len(timers) = 0
    /\ calls[Len(calls)].status = "fulfilled"
    /\ conferencesState = [ list |-> calls[Len(calls)].value ]

\* C30: the UI is in the completed state only when the searchConferences call
\* made for the submitted filters has resolved.
C30_CompletedOnlyAfterResolved ==
  (~isLoading /\ searchPerformed) =>
    \A i \in 1..Len(calls) : conferencesState = [ promise |-> i ] => calls[i].status = "fulfilled"

====
